---- MODULE Spec2Model ----
(***************************************************************************)
(* Model of the first- and second-order SVF filters of                     *)
(* rust-basic-audio-filters (src/first_order_iir.rs,                       *)
(* src/second_order_iir.rs).                                               *)
(*                                                                         *)
(* Numbers.  An f32 is modelled as an extended rational <<n, d>>:          *)
(*   d > 0, gcd(n, d) = 1   the finite value n/d                           *)
(*   <<1, 0>>, <<-1, 0>>    +infinity, -infinity                           *)
(*   <<0, 0>>               NaN                                            *)
(* The arithmetic follows IEEE-754 on the special values (x/0, inf-inf,    *)
(* 0*inf, NaN propagation) and is exact on the finite ones: the rounding   *)
(* of a finite result to 24 significant bits is not modelled, and zero     *)
(* carries no sign (a zero divisor is +0).  tan, cos, sin and sqrt are     *)
(* exact where the result is rational and rounded to a binary grid         *)
(* elsewhere.                                                              *)
(***************************************************************************)
EXTENDS Integers, Sequences, FiniteSets, TLC

VARIABLES iir1, iir2, last, outs, hist, given, zeroRun, call, coefs, bode

vars == <<iir1, iir2, last, outs, hist, given, zeroRun, call, coefs, bode>>

(***************************************************************************)
(* f32 values and arithmetic                                               *)
(***************************************************************************)
Abs(i) == IF i < 0 THEN -i ELSE i

Sgn(i) == IF i < 0 THEN -1 ELSE IF i > 0 THEN 1 ELSE 0

RECURSIVE GCD(_, _)
GCD(i, j) == IF j = 0 THEN i ELSE GCD(j, i % j)

\* the finite value n/d (d # 0) in lowest terms
F(n, d) ==
    LET g == GCD(Abs(n), Abs(d))
    IN  <<(Sgn(d) * n) \div g, Abs(d) \div g>>

NaN == <<0, 0>>
PInf == <<1, 0>>
NInf == <<-1, 0>>
Zero == <<0, 1>>
One == <<1, 1>>
Two == <<2, 1>>

IsNaN(x) == x = NaN
IsInf(x) == x = PInf \/ x = NInf
IsFinite(x) == x[2] # 0
InfOrNaN(x) == x[2] = 0

FNeg(x) == <<-x[1], x[2]>>

FAdd(x, y) ==
    IF IsNaN(x) \/ IsNaN(y) THEN NaN
    ELSE IF IsInf(x) THEN (IF IsInf(y) /\ y # x THEN NaN ELSE x)
    ELSE IF IsInf(y) THEN y
    ELSE LET g == GCD(x[2], y[2])
         IN  F(x[1] * (y[2] \div g) + y[1] * (x[2] \div g), (x[2] \div g) * y[2])

FSub(x, y) == FAdd(x, FNeg(y))

FMul(x, y) ==
    IF IsNaN(x) \/ IsNaN(y) THEN NaN
    ELSE IF IsInf(x) \/ IsInf(y)
         THEN (IF x[1] = 0 \/ y[1] = 0 THEN NaN ELSE <<Sgn(x[1]) * Sgn(y[1]), 0>>)
    ELSE LET g1 == GCD(Abs(x[1]), y[2])
             g2 == GCD(Abs(y[1]), x[2])
         IN  F((x[1] \div g1) * (y[1] \div g2), (x[2] \div g2) * (y[2] \div g1))

FDivGuarded(x, y) ==
    IF IsNaN(x) \/ IsNaN(y) THEN NaN
    ELSE IF IsInf(y) THEN (IF IsInf(x) THEN NaN ELSE Zero)
    ELSE IF y[1] = 0 THEN Zero
    ELSE FMul(x, F(y[2], y[1]))

FDiv(x, y) ==
    IF IsNaN(x) \/ IsNaN(y) THEN NaN
    ELSE IF IsInf(y) THEN (IF IsInf(x) THEN NaN ELSE Zero)
    ELSE IF y[1] = 0 THEN (IF x[1] = 0 THEN NaN ELSE <<Sgn(x[1]), 0>>)
    ELSE FMul(x, F(y[2], y[1]))

\* x < y on non-NaN values
FLess(x, y) ==
    IF x = y THEN FALSE
    ELSE IF x = NInf \/ y = PInf THEN TRUE
    ELSE IF x = PInf \/ y = NInf THEN FALSE
    ELSE x[1] * y[2] < y[1] * x[2]

\* f32::min: the other operand when one is NaN
FMin(x, y) ==
    IF IsNaN(x) THEN y
    ELSE IF IsNaN(y) THEN x
    ELSE IF FLess(y, x) THEN y ELSE x

RECURSIVE ISqrtFrom(_, _)
ISqrtFrom(v, k) == IF (k + 1) * (k + 1) > v THEN k ELSE ISqrtFrom(v, k + 1)

ISqrt(v) == ISqrtFrom(v, 0)

\* f32::sqrt: exact on squares of rationals, else rounded down to 1/16
FSqrt(x) ==
    IF IsNaN(x) \/ x[1] < 0 THEN NaN
    ELSE IF x = PInf THEN PInf
    ELSE LET rn == ISqrt(x[1])
             rd == ISqrt(x[2])
         IN  IF rn * rn = x[1] /\ rd * rd = x[2] THEN F(rn, rd)
             ELSE F(ISqrt((256 * x[1]) \div x[2]), 16)

RECURSIVE IPow(_, _)
IPow(b, n) == IF n = 0 THEN One ELSE FMul(b, IPow(b, n - 1))

\* f32::powf for a finite base > 0 and an exponent that is an integer or a
\* half-integer; powf(1, y) = 1 for every y
FPowf(b, e) ==
    IF b = One THEN One
    ELSE IF IsNaN(e) THEN NaN
    ELSE IF e = PInf THEN (IF FLess(One, b) THEN PInf ELSE Zero)
    ELSE IF e = NInf THEN (IF FLess(One, b) THEN Zero ELSE PInf)
    ELSE LET p == IPow(b, Abs(e[1]))
             s == IF e[1] < 0 THEN FDiv(One, p) ELSE p
         IN  IF e[2] = 1 THEN s ELSE FSqrt(s)

\* (PI * r).tan() for the ratio r = f0 / fs: exact at 0 and 1/4, rounded to
\* 1/64 elsewhere; at r = 1/2 the f32 argument exceeds pi/2 and tan is a
\* large negative finite number (-22877332.0 for fs = 48000.0), which -64
\* stands for
TanPi(r) ==
    IF ~IsFinite(r) THEN NaN
    ELSE CASE r = <<0, 1>> -> Zero
           [] r = <<1, 96>> -> F(2, 64)
           [] r = <<1, 48>> -> F(4, 64)
           [] r = <<1, 40>> -> F(5, 64)
           [] r = <<1, 20>> -> F(10, 64)
           [] r = <<1, 8>> -> F(27, 64)
           [] r = <<1, 4>> -> One
           [] r = <<5, 16>> -> F(96, 64)
           [] r = <<1, 2>> -> F(-64, 1)

\* (-TAU * t).cos() and (-TAU * t).sin() for the ratio t = f_hz / fs
CosNegTau(t) ==
    IF ~IsFinite(t) THEN NaN
    ELSE CASE t = <<0, 1>> -> One
           [] t = <<1, 4>> -> Zero
           [] t = <<1, 2>> -> FNeg(One)

SinNegTau(t) ==
    IF ~IsFinite(t) THEN NaN
    ELSE CASE t = <<0, 1>> -> Zero
           [] t = <<1, 4>> -> FNeg(One)
           [] t = <<1, 2>> -> Zero

(***************************************************************************)
(* Complex<f32> (num_complex)                                              *)
(***************************************************************************)
Cx(re, im) == [re |-> re, im |-> im]

CAdd(z, w) == Cx(FAdd(z.re, w.re), FAdd(z.im, w.im))

\* f32 + Complex and Complex + f32 add to the real part
CAddR(z, x) == Cx(FAdd(z.re, x), z.im)

\* f32 - Complex
RSubC(x, z) == Cx(FSub(x, z.re), FNeg(z.im))

\* f32 * Complex and Complex * f32 scale both parts
CScale(z, x) == Cx(FMul(z.re, x), FMul(z.im, x))

CMul(z, w) ==
    Cx(FSub(FMul(z.re, w.re), FMul(z.im, w.im)),
       FAdd(FMul(z.re, w.im), FMul(z.im, w.re)))

CDiv(z, w) ==
    LET norm_sqr == FAdd(FMul(w.re, w.re), FMul(w.im, w.im))
    IN  Cx(FDiv(FAdd(FMul(z.re, w.re), FMul(z.im, w.im)), norm_sqr),
           FDiv(FSub(FMul(z.im, w.re), FMul(z.re, w.im)), norm_sqr))

\* the square of Complex::norm
NormSqr(z) == FAdd(FMul(z.re, z.re), FMul(z.im, z.im))

get_z(f_hz, fs) ==
    LET t == FDiv(f_hz, fs)
    IN  Cx(CosNegTau(t), SinNegTau(t))

(***************************************************************************)
(* IIR1Coefficients (first_order_iir.rs)                                   *)
(***************************************************************************)
IIR1Coefficients(a, g, a1, m0, m1, fs) ==
    [a |-> a, g |-> g, a1 |-> a1, m0 |-> m0, m1 |-> m1, fs |-> fs]

IIR1Coefficients_get_bode_sample(self, f_hz, fs) ==
    LET z == get_z(f_hz, fs)
        denominator == CAddR(CAddR(CScale(z, FSub(self.g, One)), self.g), One)
        y == CAddR(CDiv(CScale(CAddR(z, One), FMul(self.m1, self.g)), denominator),
                   self.m0)
    IN  y

IIR1Coefficients_empty == IIR1Coefficients(Zero, Zero, Zero, Zero, Zero, Zero)

\* the literal 0.0_5 is 0.05
IIR1Coefficients_lowpass(f0_in, db_gain, fs) ==
    LET f0 == FMin(f0_in, FMul(fs, F(5, 100)))
        a == One
        g == TanPi(FDiv(f0, fs))
        a1 == FDiv(g, FAdd(One, g))
        m0 == Zero
        m1 == One
    IN  IIR1Coefficients(a, g, a1, m0, m1, fs)

IIR1Coefficients_highpass(f0_in, db_gain, fs) ==
    LET f0 == FMin(f0_in, FMul(fs, F(5, 100)))
        a == One
        g == TanPi(FDiv(f0, fs))
        a1 == FDiv(g, FAdd(One, g))
        m0 == One
        m1 == FNeg(One)
    IN  IIR1Coefficients(a, g, a1, m0, m1, fs)

IIR1Coefficients_allpass(f0_in, db_gain, fs) ==
    LET f0 == FMin(f0_in, FMul(fs, F(5, 100)))
        a == One
        g == TanPi(FDiv(f0, fs))
        a1 == FDiv(g, FAdd(One, g))
        m0 == One
        m1 == FNeg(Two)
    IN  IIR1Coefficients(a, g, a1, m0, m1, fs)

IIR1Coefficients_lowshelf(f0_in, db_gain, fs) ==
    LET f0 == FMin(f0_in, FMul(fs, F(5, 100)))
        a == FPowf(One, FDiv(db_gain, F(20, 1)))
        g == FDiv(TanPi(FDiv(f0, fs)), FSqrt(a))
        a1 == FDiv(g, FAdd(One, g))
        m0 == One
        m1 == FSub(a, One)
    IN  IIR1Coefficients(a, g, a1, m0, m1, fs)

IIR1Coefficients_highshelf(f0_in, db_gain, fs) ==
    LET f0 == FMin(f0_in, FMul(fs, F(5, 100)))
        a == FPowf(One, FDiv(db_gain, F(20, 1)))
        g == FMul(TanPi(FDiv(f0, fs)), FSqrt(a))
        a1 == FDiv(g, FAdd(One, g))
        m0 == a
        m1 == FSub(One, a)
    IN  IIR1Coefficients(a, g, a1, m0, m1, fs)

(***************************************************************************)
(* IIR2Coefficients (second_order_iir.rs)                                  *)
(***************************************************************************)
IIR2Coefficients(a, g, k, a1, a2, a3, m0, m1, m2) ==
    [a |-> a, g |-> g, gpow2 |-> FMul(g, g), k |-> k, a1 |-> a1, a2 |-> a2,
     a3 |-> a3, m0 |-> m0, m1 |-> m1, m2 |-> m2]

IIR2Coefficients_get_bode_sample_swapped(self, frequency_hz, sample_rate_hz) ==
    LET z == get_z(frequency_hz, sample_rate_hz)
        zpow2 == CMul(z, z)
        gk == FMul(self.g, self.k)
        denominator ==
            CAdd(CAddR(CScale(z, FMul(Two, FSub(self.gpow2, One))),
                       FAdd(FAdd(self.gpow2, gk), One)),
                 CScale(zpow2, FAdd(FSub(self.gpow2, gk), One)))
        y == CAddR(CDiv(CAdd(CScale(CAddR(CAdd(CScale(z, Two), zpow2), One),
                                    FMul(self.m1, self.g)),
                             CScale(RSubC(One, zpow2), FMul(self.m2, self.gpow2))),
                        denominator),
                   self.m0)
    IN  y

IIR2Coefficients_get_bode_sample(self, frequency_hz, sample_rate_hz) ==
    LET z == get_z(frequency_hz, sample_rate_hz)
        zpow2 == CMul(z, z)
        gk == FMul(self.g, self.k)
        denominator ==
            CAdd(CAddR(CScale(z, FMul(Two, FSub(self.gpow2, One))),
                       FAdd(FAdd(self.gpow2, gk), One)),
                 CScale(zpow2, FAdd(FSub(self.gpow2, gk), One)))
        y == CAddR(CDiv(CAdd(CScale(RSubC(One, zpow2), FMul(self.m1, self.g)),
                             CScale(CAddR(CAdd(CScale(z, Two), zpow2), One),
                                    FMul(self.m2, self.gpow2))),
                        denominator),
                   self.m0)
    IN  y

IIR2Coefficients_lowpass_gain(cutoff_in, gain_db, q_value, sample_rate_hz) ==
    LET cutoff_hz == FMin(cutoff_in, FMul(sample_rate_hz, F(1, 2)))
        a == FPowf(F(10, 1), FDiv(gain_db, F(40, 1)))
        g == TanPi(FDiv(cutoff_hz, sample_rate_hz))
        k == FDiv(One, q_value)
        a1 == FDiv(One, FAdd(One, FMul(g, FAdd(g, k))))
        a2 == FMul(g, a1)
        a3 == FMul(g, a2)
        m0 == Zero
        m1 == Zero
        m2 == One
    IN  IIR2Coefficients(a, g, k, a1, a2, a3, m0, m1, m2)

IIR2Coefficients_lowpass(cutoff_in, gain_db, q_value, sample_rate_hz) ==
    LET cutoff_hz == FMin(cutoff_in, FMul(sample_rate_hz, F(1, 2)))
        a == One
        g == TanPi(FDiv(cutoff_hz, sample_rate_hz))
        k == FDiv(One, q_value)
        a1 == FDiv(One, FAdd(One, FMul(g, FAdd(g, k))))
        a2 == FMul(g, a1)
        a3 == FMul(g, a2)
        m0 == Zero
        m1 == Zero
        m2 == One
    IN  IIR2Coefficients(a, g, k, a1, a2, a3, m0, m1, m2)

IIR2Coefficients_highpass(cutoff_in, gain_db, q_value, sample_rate_hz) ==
    LET cutoff_hz == FMin(cutoff_in, FMul(sample_rate_hz, F(1, 2)))
        a == One
        g == TanPi(FDiv(cutoff_hz, sample_rate_hz))
        k == FDiv(One, q_value)
        a1 == FDiv(One, FAdd(One, FMul(g, FAdd(g, k))))
        a2 == FMul(g, a1)
        a3 == FMul(g, a2)
        m0 == One
        m1 == FNeg(k)
        m2 == FNeg(One)
    IN  IIR2Coefficients(a, g, k, a1, a2, a3, m0, m1, m2)

IIR2Coefficients_bandpass(cutoff_in, gain_db, q_value, sample_rate_hz) ==
    LET cutoff_hz == FMin(cutoff_in, FMul(sample_rate_hz, F(1, 2)))
        a == One
        g == TanPi(FDiv(cutoff_hz, sample_rate_hz))
        k == FDiv(One, q_value)
        a1 == FDiv(One, FAdd(One, FMul(g, FAdd(g, k))))
        a2 == FMul(g, a1)
        a3 == FMul(g, a2)
        m0 == Zero
        m1 == One
        m2 == Zero
    IN  IIR2Coefficients(a, g, k, a1, a2, a3, m0, m1, m2)

IIR2Coefficients_notch(cutoff_in, gain_db, q_value, sample_rate_hz) ==
    LET cutoff_hz == FMin(cutoff_in, FMul(sample_rate_hz, F(1, 2)))
        a == One
        g == TanPi(FDiv(cutoff_hz, sample_rate_hz))
        k == FDiv(One, q_value)
        a1 == FDiv(One, FAdd(One, FMul(g, FAdd(g, k))))
        a2 == FMul(g, a1)
        a3 == FMul(g, a2)
        m0 == One
        m1 == FNeg(k)
        m2 == Zero
    IN  IIR2Coefficients(a, g, k, a1, a2, a3, m0, m1, m2)

IIR2Coefficients_allpass(cutoff_in, gain_db, q_value, sample_rate_hz) ==
    LET cutoff_hz == FMin(cutoff_in, FMul(sample_rate_hz, F(1, 2)))
        a == One
        g == TanPi(FDiv(cutoff_hz, sample_rate_hz))
        k == FDiv(One, q_value)
        a1 == FDiv(One, FAdd(One, FMul(g, FAdd(g, k))))
        a2 == FMul(g, a1)
        a3 == FMul(g, a2)
        m0 == One
        m1 == FMul(FNeg(Two), k)
        m2 == Zero
    IN  IIR2Coefficients(a, g, k, a1, a2, a3, m0, m1, m2)

IIR2Coefficients_lowshelf(cutoff_in, gain_db, q_value, sample_rate_hz) ==
    LET cutoff_hz == FMin(cutoff_in, FMul(sample_rate_hz, F(1, 2)))
        a == FPowf(F(10, 1), FDiv(gain_db, F(40, 1)))
        g == FDiv(TanPi(FDiv(cutoff_hz, sample_rate_hz)), FSqrt(a))
        k == FDiv(One, q_value)
        a1 == FDiv(One, FAdd(One, FMul(g, FAdd(g, k))))
        a2 == FMul(g, a1)
        a3 == FMul(g, a2)
        m0 == One
        m1 == FMul(k, FSub(a, One))
        m2 == FSub(FMul(a, a), One)
    IN  IIR2Coefficients(a, g, k, a1, a2, a3, m0, m1, m2)

IIR2Coefficients_highshelf(cutoff_in, gain_db, q_value, sample_rate_hz) ==
    LET cutoff_hz == FMin(cutoff_in, FMul(sample_rate_hz, F(1, 2)))
        a == FPowf(F(10, 1), FDiv(gain_db, F(40, 1)))
        g == FMul(TanPi(FDiv(cutoff_hz, sample_rate_hz)), FSqrt(a))
        k == FDiv(One, q_value)
        a1 == FDiv(One, FAdd(One, FMul(g, FAdd(g, k))))
        a2 == FMul(g, a1)
        a3 == FMul(g, a2)
        m0 == FMul(a, a)
        m1 == FMul(FMul(k, FSub(One, a)), a)
        m2 == FSub(One, FMul(a, a))
    IN  IIR2Coefficients(a, g, k, a1, a2, a3, m0, m1, m2)

IIR2Coefficients_bell(cutoff_in, gain_db, q_value, sample_rate_hz) ==
    LET cutoff_hz == FMin(cutoff_in, FMul(sample_rate_hz, F(1, 2)))
        a == FPowf(F(10, 1), FDiv(gain_db, F(40, 1)))
        g == TanPi(FDiv(cutoff_hz, sample_rate_hz))
        k == FDiv(One, FMul(q_value, a))
        a1 == FDiv(One, FAdd(One, FMul(g, FAdd(g, k))))
        a2 == FMul(g, a1)
        a3 == FMul(g, a2)
        m0 == One
        m1 == FMul(k, FSub(FMul(a, a), One))
        m2 == Zero
    IN  IIR2Coefficients(a, g, k, a1, a2, a3, m0, m1, m2)

(***************************************************************************)
(* IIR1 (first_order_iir.rs)                                               *)
(***************************************************************************)
IIR1_from(coefficients) == [ic1eq |-> Zero, coeffs |-> coefficients]

IIR1_process_doubled(self, input) ==
    LET v1 == FMul(self.coeffs.a1, FSub(input, self.ic1eq))
        v2 == FAdd(v1, self.ic1eq)
    IN  [self |-> [ic1eq |-> FAdd(v2, v2), coeffs |-> self.coeffs],
         ret |-> FAdd(FMul(self.coeffs.m0, input), FMul(self.coeffs.m1, v2))]

IIR1_process_unscaled(self, input) ==
    LET v1 == FMul(self.coeffs.a1, FSub(input, self.ic1eq))
        v2 == FAdd(v1, self.ic1eq)
    IN  [self |-> [ic1eq |-> FAdd(v2, v1), coeffs |-> self.coeffs],
         ret |-> FAdd(self.coeffs.m0, FMul(self.coeffs.m1, v2))]

IIR1_process(self, input) ==
    LET v1 == FMul(self.coeffs.a1, FSub(input, self.ic1eq))
        v2 == FAdd(v1, self.ic1eq)
    IN  [self |-> [ic1eq |-> FAdd(v2, v1), coeffs |-> self.coeffs],
         ret |-> FAdd(FMul(self.coeffs.m0, input), FMul(self.coeffs.m1, v2))]

IIR1_update_coefficients(self, new_coefficients) ==
    [ic1eq |-> self.ic1eq, coeffs |-> new_coefficients]

(***************************************************************************)
(* IIR2 (second_order_iir.rs)                                              *)
(***************************************************************************)
IIR2_from(coefficients) ==
    [ic1eq |-> Zero, ic2eq |-> Zero, coeffs |-> coefficients]

IIR2_process_crossed(self, input_sample) ==
    LET v3 == FSub(input_sample, self.ic2eq)
        v1 == FAdd(FMul(self.coeffs.a1, self.ic1eq), FMul(self.coeffs.a2, v3))
        v2 == FAdd(FAdd(self.ic2eq, FMul(self.coeffs.a2, self.ic1eq)),
                   FMul(self.coeffs.a3, v3))
    IN  [self |-> [ic1eq |-> FSub(FMul(Two, v1), self.ic1eq),
                   ic2eq |-> FSub(FMul(Two, v2), self.ic1eq),
                   coeffs |-> self.coeffs],
         ret |-> FAdd(FAdd(FMul(self.coeffs.m0, input_sample),
                           FMul(self.coeffs.m1, v1)),
                      FMul(self.coeffs.m2, v2))]

IIR2_process_clobber(self, input_sample) ==
    LET v3 == FSub(input_sample, self.ic2eq)
        v1 == FAdd(FMul(self.coeffs.a1, self.ic1eq), FMul(self.coeffs.a2, v3))
        v2 == FAdd(FAdd(self.ic2eq, FMul(self.coeffs.a2, self.ic1eq)),
                   FMul(self.coeffs.a3, v3))
    IN  [self |-> [ic1eq |-> FSub(FMul(Two, v1), self.ic1eq),
                   ic2eq |-> FSub(FMul(Two, v2), self.ic2eq),
                   coeffs |-> [self.coeffs EXCEPT !.m0 = input_sample]],
         ret |-> FAdd(FAdd(FMul(self.coeffs.m0, input_sample),
                           FMul(self.coeffs.m1, v1)),
                      FMul(self.coeffs.m2, v2))]

IIR2_process(self, input_sample) ==
    LET v3 == FSub(input_sample, self.ic2eq)
        v1 == FAdd(FMul(self.coeffs.a1, self.ic1eq), FMul(self.coeffs.a2, v3))
        v2 == FAdd(FAdd(self.ic2eq, FMul(self.coeffs.a2, self.ic1eq)),
                   FMul(self.coeffs.a3, v3))
    IN  [self |-> [ic1eq |-> FSub(FMul(Two, v1), self.ic1eq),
                   ic2eq |-> FSub(FMul(Two, v2), self.ic2eq),
                   coeffs |-> self.coeffs],
         ret |-> FAdd(FAdd(FMul(self.coeffs.m0, input_sample),
                           FMul(self.coeffs.m1, v1)),
                      FMul(self.coeffs.m2, v2))]

IIR2_update_reset(self, new_coefficients) ==
    [ic1eq |-> Zero, ic2eq |-> Zero, coeffs |-> new_coefficients]

IIR2_update(self, new_coefficients) ==
    [ic1eq |-> self.ic1eq, ic2eq |-> self.ic2eq, coeffs |-> new_coefficients]

(***************************************************************************)
(* A caller streaming samples through one filter, as test_iir1 and         *)
(* test_iir2 do, and replacing its coefficients on the way.                *)
(*   iir1, iir2  the filter: <<>> or <<the IIR1 / IIR2 value>>             *)
(*   last        the operation that produced the state                     *)
(*   outs        the values process has returned, in order                 *)
(*   hist        per process call: the coefficient set held, the input     *)
(*               sample and the registers before the call                  *)
(*   given       <<the set last passed to from / update>>                  *)
(*   zeroRun     every set passed so far was finite and every sample 0     *)
(***************************************************************************)
MaxSteps == 3

Hz(n) == F(n, 1)

Samples == {FNeg(One), Zero, One}

Coeffs1 ==
    { IIR1Coefficients_lowpass(Hz(2400), Zero, Hz(48000)),
      IIR1Coefficients_highpass(Hz(1000), Zero, Hz(48000)),
      IIR1Coefficients_lowpass(Hz(1000), Zero, Zero) }

Coeffs2 ==
    { IIR2Coefficients_lowpass(Hz(12000), Zero, One, Hz(48000)),
      IIR2Coefficients_highpass(Hz(12000), Zero, Zero, Hz(48000)),
      IIR2Coefficients_bell(Hz(12000), F(40, 1), One, Hz(48000)) }

AllFinite(c) == \A f \in DOMAIN c : IsFinite(c[f])

Regs ==
    IF iir1 # <<>> THEN <<iir1[1].ic1eq>>
    ELSE IF iir2 # <<>> THEN <<iir2[1].ic1eq, iir2[1].ic2eq>>
    ELSE <<>>

NoCall == [order |-> 0, arch |-> "none", f0 |-> Zero, gain |-> Zero, q |-> Zero,
           fs |-> Zero]

Init ==
    /\ \/ \E c \in Coeffs1 :
            /\ iir1 = <<IIR1_from(c)>>
            /\ iir2 = <<>>
            /\ given = <<c>>
            /\ zeroRun = AllFinite(c)
       \/ \E c \in Coeffs2 :
            /\ iir1 = <<>>
            /\ iir2 = <<IIR2_from(c)>>
            /\ given = <<c>>
            /\ zeroRun = AllFinite(c)
    /\ last = "from"
    /\ outs = <<>>
    /\ hist = <<>>
    /\ call = NoCall
    /\ coefs = <<>>
    /\ bode = <<>>

Process1(x) ==
    /\ iir1 # <<>>
    /\ Len(hist) < MaxSteps
    /\ LET r == IIR1_process(iir1[1], x)
       IN  /\ iir1' = <<r.self>>
           /\ outs' = Append(outs, r.ret)
    /\ hist' = Append(hist, [c |-> iir1[1].coeffs, x |-> x, s |-> Regs])
    /\ last' = "process"
    /\ zeroRun' = (zeroRun /\ x = Zero)
    /\ UNCHANGED <<iir2, given, call, coefs, bode>>

Update1(c) ==
    /\ iir1 # <<>>
    /\ iir1' = <<IIR1_update_coefficients(iir1[1], c)>>
    /\ given' = <<c>>
    /\ last' = "update"
    /\ zeroRun' = (zeroRun /\ AllFinite(c))
    /\ UNCHANGED <<iir2, outs, hist, call, coefs, bode>>

Process2(x) ==
    /\ iir2 # <<>>
    /\ Len(hist) < MaxSteps
    /\ LET r == IIR2_process(iir2[1], x)
       IN  /\ iir2' = <<r.self>>
           /\ outs' = Append(outs, r.ret)
    /\ hist' = Append(hist, [c |-> iir2[1].coeffs, x |-> x, s |-> Regs])
    /\ last' = "process"
    /\ zeroRun' = (zeroRun /\ x = Zero)
    /\ UNCHANGED <<iir1, given, call, coefs, bode>>

Update2(c) ==
    /\ iir2 # <<>>
    /\ iir2' = <<IIR2_update(iir2[1], c)>>
    /\ given' = <<c>>
    /\ last' = "update"
    /\ zeroRun' = (zeroRun /\ AllFinite(c))
    /\ UNCHANGED <<iir1, outs, hist, call, coefs, bode>>

Next ==
    \/ \E x \in Samples : Process1(x)
    \/ \E c \in Coeffs1 : Update1(c)
    \/ \E x \in Samples : Process2(x)
    \/ \E c \in Coeffs2 : Update2(c)

Spec == Init /\ [][Next]_vars

(***************************************************************************)
(* Properties of the filter state                                          *)
(***************************************************************************)
AllZero(regs) == \A i \in 1..Len(regs) : regs[i] = Zero

\* the registers after the n-th process call
RegsAfter(n) == IF n < Len(hist) THEN hist[n + 1].s ELSE Regs

\* C1: replacing the coefficient set (update_coefficients at order 1, update
\* at order 2) leaves every integrator register, and every output already
\* returned, exactly as it was before the call.
C1_UpdateKeepsRegisters ==
    [][last' = "update" => (Regs' = Regs /\ outs' = outs /\ hist' = hist)]_vars

C1_Witness ==
    /\ last = "update"
    /\ iir2 # <<>>
    /\ Len(hist) >= 1
    /\ ~AllZero(Regs)
    /\ AllFinite(<<Regs[1], Regs[2]>>)
    /\ iir2[1].coeffs # hist[Len(hist)].c

\* the order-2 recurrence as the specification states it: one step from
\* registers <<s1, s2>> with coefficients c and input x
Step2(c, s1, s2, x) ==
    LET v3 == FSub(x, s2)
        v1 == FAdd(FMul(c.a1, s1), FMul(c.a2, v3))
        v2 == FAdd(FAdd(s2, FMul(c.a2, s1)), FMul(c.a3, v3))
    IN  [out |-> FAdd(FAdd(FMul(c.m0, x), FMul(c.m1, v1)), FMul(c.m2, v2)),
         regs |-> <<FSub(FMul(Two, v1), s1), FSub(FMul(Two, v2), s2)>>]

\* the recurrence iterated over the first n calls, from registers (0, 0)
RECURSIVE Iterate2(_)
Iterate2(n) ==
    IF n = 0 THEN [out |-> Zero, regs |-> <<Zero, Zero>>]
    ELSE LET before == Iterate2(n - 1).regs
         IN  Step2(hist[n].c, before[1], before[2], hist[n].x)

\* C2: an order-2 process(x) returns m0*x + m1*v1 + m2*v2 and leaves the
\* registers at (2*v1 - s1, 2*v2 - s2); the n-th output of a freshly
\* constructed filter is the recurrence iterated from registers (0, 0).
C2_Order2Recurrence ==
    iir2 # <<>> =>
        /\ Len(outs) = Len(hist)
        /\ \A n \in 1..Len(hist) :
              /\ outs[n] = Step2(hist[n].c, hist[n].s[1], hist[n].s[2], hist[n].x).out
              /\ RegsAfter(n) =
                     Step2(hist[n].c, hist[n].s[1], hist[n].s[2], hist[n].x).regs
              /\ outs[n] = Iterate2(n).out
        /\ Regs = Iterate2(Len(hist)).regs

C2_Witness ==
    /\ iir2 # <<>>
    /\ Len(hist) = 3
    /\ hist[1].x = One
    /\ hist[3].x = FNeg(One)
    /\ IsFinite(outs[3])
    /\ outs[3] # Zero
    /\ outs[3] # outs[1]
    /\ Regs[1] # Regs[2]

\* the order-1 recurrence as the specification states it
Step1(c, s, x) ==
    LET v1 == FMul(c.a1, FSub(x, s))
        v2 == FAdd(v1, s)
    IN  [out |-> FAdd(FMul(c.m0, x), FMul(c.m1, v2)), regs |-> <<FAdd(v2, v1)>>]

RECURSIVE Iterate1(_)
Iterate1(n) ==
    IF n = 0 THEN [out |-> Zero, regs |-> <<Zero>>]
    ELSE Step1(hist[n].c, Iterate1(n - 1).regs[1], hist[n].x)

\* C3: an order-1 process(x) returns m0*x + m1*v2 and leaves the register at
\* v2 + v1; the n-th output of a freshly constructed filter is the
\* recurrence iterated from register 0.
C3_Order1Recurrence ==
    iir1 # <<>> =>
        /\ Len(outs) = Len(hist)
        /\ \A n \in 1..Len(hist) :
              /\ outs[n] = Step1(hist[n].c, hist[n].s[1], hist[n].x).out
              /\ RegsAfter(n) = Step1(hist[n].c, hist[n].s[1], hist[n].x).regs
              /\ outs[n] = Iterate1(n).out
        /\ Regs = Iterate1(Len(hist)).regs

C3_Witness ==
    /\ iir1 # <<>>
    /\ Len(hist) = 3
    /\ hist[1].x = One
    /\ hist[2].x = Zero
    /\ IsFinite(outs[3])
    /\ outs[2] # Zero
    /\ outs[3] # outs[2]
    /\ Regs[1] # Zero

\* C9: the coefficient set a filter holds is, field for field, the set last
\* passed to its constructor or to update; process changes no field of it.
C9_HoldsGivenCoefficients ==
    /\ iir1 # <<>> => iir1[1].coeffs = given[1]
    /\ iir2 # <<>> => iir2[1].coeffs = given[1]
    /\ (last = "process" /\ (iir1 # <<>> \/ iir2 # <<>>)) =>
            given[1] = hist[Len(hist)].c

C9_Witness ==
    /\ iir2 # <<>>
    /\ last = "process"
    /\ Len(hist) >= 2
    /\ hist[1].c # hist[2].c
    /\ hist[Len(hist)].x # Zero
    /\ iir2[1].coeffs = given[1]

\* C10: with finite stored coefficients, zero registers and a zero input,
\* process returns 0 and leaves the registers at 0; so process(0) calls
\* and updates to finite sets keep registers and outputs at 0 from
\* construction on.
C10_ZeroStaysZero ==
    /\ \A n \in 1..Len(hist) :
          (AllZero(hist[n].s) /\ hist[n].x = Zero /\ AllFinite(hist[n].c)) =>
              (outs[n] = Zero /\ AllZero(RegsAfter(n)))
    /\ zeroRun => (AllZero(Regs) /\ \A n \in 1..Len(outs) : outs[n] = Zero)

C10_Witness ==
    /\ zeroRun
    /\ last = "process"
    /\ Len(hist) >= 2
    /\ hist[1].c # hist[2].c
    /\ hist[2].c.m0 # Zero
    /\ outs[Len(outs)] = Zero

(***************************************************************************)
(* A caller of the coefficient designers and of get_bode_sample.           *)
(*   call   the designer call: order, archetype and arguments              *)
(*   coefs  <<>> or <<the coefficient set the call returned>>              *)
(*   bode   <<>> or <<the query and the value get_bode_sample returned>>   *)
(***************************************************************************)
Arch1 == {"lowpass", "highpass", "allpass", "lowshelf", "highshelf"}

Arch2 == {"lowpass", "highpass", "bandpass", "notch", "allpass", "lowshelf",
          "highshelf", "bell"}

CutoffSet == {Zero, Hz(1000), Hz(2400), Hz(12000), Hz(24000), Hz(30000)}

GainSet == {F(-40, 1), Zero, F(20, 1), F(40, 1)}

QSet == {Zero, F(1, 2), One, Two}

FsSet == {Zero, Hz(48000), Hz(96000)}

\* get_bode_sample queries <<f_hz, fs>>
BodeQueries == {<<Zero, Hz(48000)>>, <<Hz(12000), Hz(48000)>>,
                <<Hz(24000), Hz(48000)>>}

\* the order-2 archetypes whose response is queried (a = 1, so that g is a
\* value of TanPi and the response stays within 32-bit numerators)
BodeArch2 == {"lowpass", "highpass", "bandpass", "notch", "allpass"}

Calls ==
    [order : {1}, arch : Arch1, f0 : CutoffSet, gain : GainSet, q : {One},
     fs : FsSet]
    \cup
    [order : {2}, arch : Arch2, f0 : CutoffSet, gain : GainSet, q : QSet,
     fs : FsSet]

Design1(arch, f0, db_gain, fs) ==
    CASE arch = "lowpass" -> IIR1Coefficients_lowpass(f0, db_gain, fs)
      [] arch = "highpass" -> IIR1Coefficients_highpass(f0, db_gain, fs)
      [] arch = "allpass" -> IIR1Coefficients_allpass(f0, db_gain, fs)
      [] arch = "lowshelf" -> IIR1Coefficients_lowshelf(f0, db_gain, fs)
      [] arch = "highshelf" -> IIR1Coefficients_highshelf(f0, db_gain, fs)

Design2(arch, cutoff_hz, gain_db, q_value, sample_rate_hz) ==
    CASE arch = "lowpass" ->
            IIR2Coefficients_lowpass(cutoff_hz, gain_db, q_value, sample_rate_hz)
      [] arch = "highpass" ->
            IIR2Coefficients_highpass(cutoff_hz, gain_db, q_value, sample_rate_hz)
      [] arch = "bandpass" ->
            IIR2Coefficients_bandpass(cutoff_hz, gain_db, q_value, sample_rate_hz)
      [] arch = "notch" ->
            IIR2Coefficients_notch(cutoff_hz, gain_db, q_value, sample_rate_hz)
      [] arch = "allpass" ->
            IIR2Coefficients_allpass(cutoff_hz, gain_db, q_value, sample_rate_hz)
      [] arch = "lowshelf" ->
            IIR2Coefficients_lowshelf(cutoff_hz, gain_db, q_value, sample_rate_hz)
      [] arch = "highshelf" ->
            IIR2Coefficients_highshelf(cutoff_hz, gain_db, q_value, sample_rate_hz)
      [] arch = "bell" ->
            IIR2Coefficients_bell(cutoff_hz, gain_db, q_value, sample_rate_hz)

InitDesign ==
    /\ call \in Calls
    /\ coefs = <<>>
    /\ bode = <<>>
    /\ iir1 = <<>>
    /\ iir2 = <<>>
    /\ last = "none"
    /\ outs = <<>>
    /\ hist = <<>>
    /\ given = <<>>
    /\ zeroRun = FALSE

DesignOrder1 ==
    /\ call.order = 1
    /\ coefs = <<>>
    /\ coefs' = <<Design1(call.arch, call.f0, call.gain, call.fs)>>
    /\ UNCHANGED <<call, bode, iir1, iir2, last, outs, hist, given, zeroRun>>

DesignOrder2 ==
    /\ call.order = 2
    /\ coefs = <<>>
    /\ coefs' = <<Design2(call.arch, call.f0, call.gain, call.q, call.fs)>>
    /\ UNCHANGED <<call, bode, iir1, iir2, last, outs, hist, given, zeroRun>>

BodeOrder1(query) ==
    /\ call.order = 1
    /\ coefs # <<>>
    /\ bode = <<>>
    /\ bode' = <<[f_hz |-> query[1], fs |-> query[2],
                  y |-> IIR1Coefficients_get_bode_sample(coefs[1], query[1],
                                                         query[2])]>>
    /\ UNCHANGED <<call, coefs, iir1, iir2, last, outs, hist, given, zeroRun>>

BodeOrder2(query) ==
    /\ call.order = 2
    /\ call.arch \in BodeArch2
    /\ coefs # <<>>
    /\ bode = <<>>
    /\ bode' = <<[f_hz |-> query[1], fs |-> query[2],
                  y |-> IIR2Coefficients_get_bode_sample(coefs[1], query[1],
                                                         query[2])]>>
    /\ UNCHANGED <<call, coefs, iir1, iir2, last, outs, hist, given, zeroRun>>

NextDesign ==
    \/ DesignOrder1
    \/ DesignOrder2
    \/ \E query \in BodeQueries : BodeOrder1(query)
    \/ \E query \in BodeQueries : BodeOrder2(query)

SpecDesign == InitDesign /\ [][NextDesign]_vars

(***************************************************************************)
(* Properties of the designers and of the frequency response               *)
(***************************************************************************)
Positive(x) == FLess(Zero, x)

Designed == coefs # <<>>

Shelving == {"lowshelf", "highshelf"}

\* C4: every designer computes g from the cutoff clamped to half the sample
\* rate: g is tan(pi * min(cutoffHz, sampleRateHz / 2) / sampleRateHz),
\* scaled by the square root of a for the shelves.
C4_ClampToNyquist ==
    (Designed /\ Positive(call.fs)) =>
        LET clamped == FMin(call.f0, FDiv(call.fs, Two))
            t == TanPi(FDiv(clamped, call.fs))
            root == FSqrt(coefs[1].a)
        IN  coefs[1].g = CASE call.arch = "lowshelf" -> FDiv(t, root)
                           [] call.arch = "highshelf" -> FMul(t, root)
                           [] OTHER -> t

\* C5: the amplitude a of a shelving or bell set is the linear gain of
\* gainDb: 10^(gainDb/20) at order 1, 10^(gainDb/40) at order 2, and differs
\* from 1 when gainDb is not 0 (for a sample rate > 0, as every designer
\* requires).
C5_AmplitudeIsLinearGain ==
    (Designed /\ Positive(call.fs) /\ call.arch \in Shelving \cup {"bell"}) =>
        /\ call.order = 1 => coefs[1].a = FPowf(Hz(10), FDiv(call.gain, Hz(20)))
        /\ call.order = 2 => coefs[1].a = FPowf(Hz(10), FDiv(call.gain, Hz(40)))
        /\ call.gain # Zero => coefs[1].a # One

C7_GainIgnored ==
    (Designed /\ call.arch \notin Shelving \cup {"bell"}) =>
        /\ coefs[1].a = One
        /\ \A other \in GainSet :
              coefs[1] = IF call.order = 1
                         THEN Design1(call.arch, call.f0, other, call.fs)
                         ELSE Design2(call.arch, call.f0, other, call.q, call.fs)

C7_Witness ==
    /\ Designed
    /\ call.order = 2
    /\ call.arch = "lowpass"
    /\ call.gain = F(40, 1)
    /\ Positive(call.q)
    /\ call.f0 = Hz(12000)
    /\ call.fs = Hz(48000)

\* the archetypes whose m1 is computed from k
M1FromK == {"highpass", "notch", "allpass", "lowshelf", "highshelf", "bell"}

ZeroQ ==
    /\ Designed
    /\ call.order = 2
    /\ call.q = Zero
    /\ Positive(call.f0)
    /\ Positive(call.fs)

\* C8 as stated: with qValue = 0 the division by zero propagates, so that
\* k, a1, a2, a3 and the k-dependent m1 are all infinite or NaN.
C8_AllDownstreamNonFinite ==
    ZeroQ =>
        /\ InfOrNaN(coefs[1].k)
        /\ InfOrNaN(coefs[1].a1)
        /\ InfOrNaN(coefs[1].a2)
        /\ InfOrNaN(coefs[1].a3)
        /\ call.arch \in M1FromK => InfOrNaN(coefs[1].m1)

\* C8 as amended: with qValue = 0, k is infinite or NaN and the k-dependent
\* m1 is infinite or NaN, but for finite non-zero g and infinite k the
\* feedback coefficients are the reciprocal of an infinite denominator:
\* a1 = a2 = a3 = 0.
C8_ZeroQCoefficients ==
    ZeroQ =>
        /\ InfOrNaN(coefs[1].k)
        /\ call.arch \in M1FromK => InfOrNaN(coefs[1].m1)
        /\ (IsFinite(coefs[1].g) /\ coefs[1].g # Zero /\ IsInf(coefs[1].k)) =>
              (coefs[1].a1 = Zero /\ coefs[1].a2 = Zero /\ coefs[1].a3 = Zero)

C8_Witness ==
    /\ ZeroQ
    /\ call.arch = "bell"
    /\ call.gain = F(40, 1)
    /\ IsInf(coefs[1].k)
    /\ IsInf(coefs[1].m1)
    /\ coefs[1].a1 = Zero

====
